---------------------------- MODULE Spec2Model ----------------------------
(***************************************************************************)
(* Skill-gap assessment (skillprep): question generation with fallback,    *)
(* option shuffling, the process-wide answer key, the per-session answer   *)
(* ledger, scoring, and the Streamlit page flow.                           *)
(*                                                                         *)
(* Python values are modelled as follows.                                  *)
(*   dict            a function whose DOMAIN is the set of keys; an        *)
(*                   options dict also carries its keys in insertion order *)
(*   list            a sequence (Python index i is TLA+ index i+1)         *)
(*   float score     an exact rational <<numerator, denominator>>;         *)
(*                   floating-point rounding is not modelled               *)
(*   an exception    a result record with raised = TRUE                    *)
(*   random.shuffle  the swaps of random.py, driven by the words of the    *)
(*                   process-wide generator, whose state is a variable     *)
(***************************************************************************)
EXTENDS Integers, Sequences, FiniteSets, TLC

VARIABLES
    CORRECT_ANSWERS,         \* config.CORRECT_ANSWERS: process-wide dict
    current_phase,           \* st.session_state.current_phase, per session
    questions,               \* st.session_state.questions, per session
    answers,                 \* st.session_state.answers, per session
    current_category_index,  \* st.session_state.current_category_index
    current_question_index,  \* st.session_state.current_question_index
    student_info,            \* st.session_state.student_info (NoInfo: unset)
    rerun,                   \* st.rerun() was called: a script run is queued
    page,                    \* what the session's last script run rendered
    thread,                  \* the session's script run in progress, if any
    random_inst,             \* random._inst: the generator, process-wide
    running,                 \* the session whose run took the last step
    switches,                \* how often a run in progress was pre-empted
    call,                    \* function-level harness: the pending call
    ret                      \* function-level harness: what the call returned

vars == <<CORRECT_ANSWERS, current_phase, questions, answers,
          current_category_index, current_question_index, student_info,
          rerun, page, thread, random_inst, running, switches, call, ret>>

flowVars == <<current_phase, questions, answers, current_category_index,
              current_question_index, student_info, rerun, page, thread,
              running, switches>>

-----------------------------------------------------------------------------
(* Bounds of the model *)

\* how many of the configured categories the model assesses
NumCategories == 2
\* longest JSON array the simulated service returns
MaxBatch == 7
\* longest per-category answer list drawn for a direct call of the scorer
MaxAnswers == 2
\* number of states the generator of the random module can start in
MaxSeed == 2
\* how often the interpreter takes a script run that is in progress off the
\* processor to let the run of another session go on
MaxSwitches == 1
\* most words the generator has put out before a direct call of
\* shuffle_options
MaxDrawn == 93

-----------------------------------------------------------------------------
(* config.py *)

AllCategories ==
    <<"Core Employability Skills", "Soft Skills", "Professional Skills",
      "AI Literacy", "Domain-Specific Skills", "Job Application Skills",
      "Entrepreneurial Skills", "Project Management Skills">>

\* the categories the model runs: a prefix of config.SKILL_CATEGORIES
SKILL_CATEGORIES == SubSeq(AllCategories, 1, NumCategories)

\* CATEGORY_DETAILS[category]["focus_areas"][0]
CATEGORY_DETAILS ==
    ( "Core Employability Skills" :> "Problem Solving"
   @@ "Soft Skills"               :> "Communication"
   @@ "Professional Skills"       :> "Business Ethics"
   @@ "AI Literacy"               :> "AI Basics"
   @@ "Domain-Specific Skills"    :> "Technical Knowledge"
   @@ "Job Application Skills"    :> "Resume Writing"
   @@ "Entrepreneurial Skills"    :> "Innovation"
   @@ "Project Management Skills" :> "Project Planning" )

-----------------------------------------------------------------------------
(* Helpers for Python values *)

EmptyDict == <<>>

\* d[k] = v on a dict
DictSet(d, k, v) == (k :> v) @@ d

\* chr(97 + i) for i = 0, 1, ...
Letters == <<"a", "b", "c", "d", "e", "f", "g", "h">>

chr97(i) == Letters[i + 1]

\* An options dict built from items, a sequence of <<key, value>> in the
\* order the keys were inserted (for a service answer: the order of the keys
\* in the JSON text).  isdict: isinstance(q["options"], dict).
OptionsDict(items) ==
    [isdict |-> TRUE,
     order |-> [i \in 1..Len(items) |-> items[i][1]],
     map |-> [k \in {items[i][1] : i \in 1..Len(items)} |->
                items[CHOOSE i \in 1..Len(items) : items[i][1] = k][2]]]

\* q["options"] that is not a dict
NotADict == [isdict |-> FALSE, order |-> <<>>, map |-> EmptyDict]

\* list(d.items()) of an options dict: its keys in insertion order
DictKeys(d) == d.order

\* f"{category}_{i}"
AnswerKeyName(category, i) == category \o "_" \o ToString(i)

\* GeneratorWords[seed + 1][pos + 1]: the upper four bits of the 32-bit word
\* number pos that the Mersenne Twister behind the random module puts out
\* after random.seed(seed).  The program never seeds the generator: the
\* operating system does when the module is imported, and the model starts it
\* in one of these states.
GeneratorWords ==
    <<
    <<
       13,  6, 12, 14,  6,  0,  4, 15,  8,  7,  6, 14, 12, 13,  4, 15,
        7,  5,  9, 14, 14,  3,  8,  2,  4,  2, 12,  1,  9, 12,  4, 15,
       14,  8, 15, 11, 12,  9, 14,  2,  4,  1, 11,  1, 14, 13, 10,  5,
        7,  8,  1,  5,  6,  5,  9, 10, 14,  3, 15,  8,  7,  7, 13,  8,
        4,  0, 12, 14,  8, 14,  0,  1, 11, 13,  6, 11, 13, 12, 10, 10,
        0,  9,  7, 13, 13,  5,  3, 11,  5, 11, 13,  1,  3, 14,  9,  3,
        3, 12, 15,  2, 12,  8,  7,  1,  1, 15,  5, 14,  8, 15, 14,  7,
        1,  4,  8,  4, 11,  1,  8,  5, 13, 14,  8,  3, 15, 12,  9,  8,
        9,  4,  7,  1,  9, 12,  6,  5,  9,  3,  4,  2,  3, 13,  2,  0,
        9, 15, 10,  4,  7,  1,  1, 10, 12,  2, 14,  2, 14,  0, 13,  1,
       14, 11, 14, 13,  8, 10,  6, 13, 11,  8,  4,  8, 12,  3, 13,  3,
       14, 10,  9, 13, 15,  6,  9,  4,  7,  7, 10, 10, 15, 11, 14, 15,
       12,  5,  1,  5,  9,  1,  7,  9, 10,  5, 13,  3,  3,  0, 11,  4,
        1, 11,  3,  5, 12,  2,  5,  6, 13,  0,  1, 12,  2, 13, 11,  3,
        0, 13,  9, 10, 14, 14,  8,  9, 10,  1,  0,  1, 10,  3,  9, 13,
        9,  1,  6,  1,  5, 13, 15,  1,  0,  9,  0,  3, 15, 15,  2, 11,
        1,  7,  3, 11, 12,  0, 14, 10,  0,  8,  6,  9,  1, 13,  4,  1,
        3,  1, 10,  4,  5,  6,  2,  0,  8,  7,  0,  9,  1, 11, 15,  6,
        3,  4,  5, 14, 11,  7, 13, 14, 14,  9,  2, 11, 10,  3, 15, 12,
        0, 12, 10,  2, 13,  2,  5,  8,  4,  1,  9, 14,  7, 10,  2,  0,
        7, 10,  6, 14,  9, 13,  8, 14,  4, 10,  5,  6, 13, 10,  4,  2,
        8, 11,  0,  7, 11,  1,  5, 11,  0,  8,  4,  2,  3, 12, 15,  7,
        5,  9,  4, 10,  5,  9, 15, 14, 10, 13,  9,  2, 11,  4,  6, 11,
        6, 13, 10,  1,  0,  9,  3, 11,  5,  2,  3,  3, 10,  7,  6, 11,
       14, 10,  9, 13,  6,  0,  6, 13, 11,  9,  6, 12, 10, 11,  0,  2,
        7,  1,  4, 11,  2,  7,  8, 14,  7, 14,  8,  9, 12,  0, 14,  0,
        7,  5,  4, 13,  7,  0, 12, 13, 14, 15, 12,  6,  3,  8, 15, 15,
       10, 15,  1, 13, 11,  2, 15,  0,  6, 15, 10,  6,  5,  0,  3,  0,
       11, 12,  0, 15, 13, 10,  8,  9,  1,  3,  1,  9, 10,  3, 13,  4,
        4, 11, 15,  2,  1,  7, 13, 14,  6, 10,  1,  0,  4, 14,  7, 12,
       12,  1, 13,  4,  2, 10,  8, 13, 10, 10,  5,  1, 13,  2,  4, 13,
        0,  0,  0,  3, 10,  4,  8,  5, 15,  5, 15,  9, 14, 13,  0, 13 >>,
    <<
        2,  9, 13, 12, 12,  1,  4,  1,  7, 12,  7,  7, 10,  6, 12,  3,
        1,  7,  0, 14, 13,  6,  6,  9, 12, 12,  0, 11,  7,  4, 11, 12,
        3,  9, 15,  1, 14,  5,  0,  0,  0, 10,  8,  0, 15, 14,  6, 10,
        3, 15,  6, 11,  0,  8,  3, 12,  7, 15,  7,  8,  3,  5,  3, 10,
        3, 12,  7, 15,  4, 14,  0,  6, 13, 14,  8, 14, 10,  1,  2, 10,
       15, 11, 13,  4,  1, 11,  5, 14, 11, 15, 11,  8, 14, 15,  6,  8,
       13, 14, 10,  3,  4,  4,  9, 15, 14,  7, 13, 15,  8,  6,  9, 13,
        0,  7,  3, 11, 12,  6,  6, 10,  2,  5,  8, 14, 11, 12, 10, 11,
        5,  1,  7, 10,  8,  1, 12,  2,  8, 13,  6,  5,  7, 11,  0,  7,
        0,  4, 11, 13, 15,  9,  9,  9,  6, 10,  2,  2,  8,  3, 15,  0,
       12,  3,  8, 14, 13,  8,  3,  6,  8,  5, 15, 13,  9,  5,  7, 14,
        4, 10,  8,  9, 15, 11,  0,  6, 12, 13, 13, 15, 14, 15, 11,  8,
       12,  2,  8, 12,  8,  3,  6, 15,  0,  7, 13,  5,  9,  8,  3, 15,
        8,  6,  7, 13,  5,  6,  5,  0,  8,  8,  9, 12,  9,  5,  7,  9,
        0, 12,  3, 10,  2,  8,  9,  2, 13,  1, 12,  8, 12, 13, 13, 14,
        4,  0, 13, 15, 10,  1,  1, 13,  0,  7,  0, 12, 12,  4,  3,  4,
        1, 12,  9,  2,  5,  4,  1,  2,  2,  4,  8, 15,  2, 10,  4, 10,
       11,  4,  7, 11,  5,  7,  7,  1,  0,  4,  6,  5,  6, 12,  3,  4,
        1,  4, 14, 11,  8, 15,  3, 15,  9,  6, 13, 15,  0,  3,  0,  6,
        2,  0, 11, 15,  2,  7, 11,  8, 10,  6,  8, 13,  3, 15, 15, 10,
       12, 11,  8,  7,  3,  8, 10,  0,  6, 10,  9, 12,  5, 10, 10,  6,
        0, 11,  4,  2, 15,  3, 14,  0,  4,  1, 13,  1,  4, 14, 15,  4,
       11,  2,  6,  9,  4,  2,  0,  8, 14, 13,  0,  9, 13,  3, 15, 14,
        9,  7,  2, 13, 13, 13, 15, 12, 11,  9,  8,  0,  6,  3,  5,  1,
        3,  9, 10, 14,  6,  9,  3,  7,  1, 15, 10,  6,  4,  8,  7,  0,
        5,  9, 13,  6, 14,  4,  0,  2,  3, 13,  5, 12, 15,  9, 12,  2,
        5,  6,  3,  4, 10,  1, 13,  6, 14,  8,  5, 14, 14, 13, 10,  8,
        7, 12, 15,  8,  3,  1, 11,  0,  1,  2,  2,  2, 14,  8,  3,  4,
       12,  5,  9,  8, 13,  4,  5,  5,  5,  1,  4,  3, 13, 15,  9, 12,
       15, 11, 14,  7,  2,  9,  8, 12,  1,  5,  0,  6,  1,  6, 13, 15,
       12,  2, 13,  2,  5,  1,  9,  9, 12, 14,  6,  1,  9,  8,  3,  9,
        1, 15,  4,  5, 14,  4,  9,  8, 14,  1,  7, 14,  4,  1, 12,  0 >> >>

\* the state of the generator: the stream it runs on and the number of words
\* it has put out
Generator(seed, pos) == [seed |-> seed, pos |-> pos]

\* n.bit_length()
bit_length(n) ==
    IF n < 1 THEN 0 ELSE IF n < 2 THEN 1 ELSE IF n < 4 THEN 2
    ELSE IF n < 8 THEN 3 ELSE 4

\* random.getrandbits(k) for k <= 4: the upper k bits of the next word.
\* Past the end of the table the words are read from its start again.
getrandbits(rng, k) ==
    LET stream == GeneratorWords[rng.seed + 1]
        word == stream[(rng.pos % Len(stream)) + 1]
    IN  [value |-> word \div (2 ^ (4 - k)),
         rng |-> Generator(rng.seed, rng.pos + 1)]

\* Random._randbelow_with_getrandbits(n): words are drawn until one is
\* below n
RECURSIVE randbelow(_, _)
randbelow(rng, n) ==
    LET r == getrandbits(rng, bit_length(n))
    IN  IF r.value < n THEN r ELSE randbelow(r.rng, n)

\* x after x[i], x[j] = x[j], x[i] (Python indices)
Swap(x, i, j) ==
    [x EXCEPT ![i + 1] = x[j + 1], ![j + 1] = x[i + 1]]

\* random.shuffle(x), the loop `for i in reversed(range(1, len(x)))` from
\* index i down
RECURSIVE ShuffleLoop(_, _, _)
ShuffleLoop(x, i, rng) ==
    IF i < 1 THEN [order |-> x, rng |-> rng]
    ELSE LET j == randbelow(rng, i + 1)
         IN  ShuffleLoop(Swap(x, i, j.value), i - 1, j.rng)

\* random.shuffle of a list of n items when the generator is in state rng:
\* the order it leaves the items in, written as the positions they had
\* before, and the state of the generator afterwards
RandomShuffle(rng, n) == ShuffleLoop([i \in 1..n |-> i], n - 1, rng)

-----------------------------------------------------------------------------
(* llm_api.py: questions *)

RequiredKeys == {"question", "options", "correct", "explanation"}

RequiredOptions == {"a", "b", "c", "d"}

DefaultExplanation == "This is a default question due to API error."

\* A parsed JSON object that is meant to be a question.  keys: the keys the
\* object has; options: its options dict, or NotADict.
Question(keys, text, options, correct, explanation) ==
    [type |-> "object", keys |-> keys, question |-> text,
     options |-> options, correct |-> correct, explanation |-> explanation]

\* shuffle_options, lines 26-28: question["options"].items() and
\* question["options"][correct_letter] raise on a malformed question
ShuffleRaises(question) ==
    \/ "options" \notin question.keys
    \/ "correct" \notin question.keys
    \/ ~question.options.isdict
    \/ question.correct \notin DOMAIN question.options.map

\* shuffle_options, lines 37-41: the loop that finds the new correct letter;
\* a later option with the correct text replaces an earlier one
RECURSIVE NewCorrect(_, _, _, _)
NewCorrect(shuffled, correct_answer, i, new_correct) ==
    IF i >= Len(shuffled) THEN new_correct
    ELSE NewCorrect(shuffled, correct_answer, i + 1,
                    IF shuffled[i + 1] = correct_answer
                    THEN chr97(i) ELSE new_correct)

\* shuffle_options that relabels the options and keeps the old correct letter
shuffle_options_keeps_letter(question, perm) ==
    LET map == question.options.map
        keys == DictKeys(question.options)
        n == Len(keys)
        shuffled == [i \in 1..n |-> map[keys[perm[i]]]]
        new_options == OptionsDict([i \in 1..n |->
                                      <<chr97(i - 1), shuffled[i]>>])
    IN  [question EXCEPT !.options = new_options]

\* shuffle_options(question) when random.shuffle leaves the items in the
\* order perm (perm[i]: which item comes i-th)
shuffle_options(question, perm) ==
    LET map == question.options.map
        keys == DictKeys(question.options)
        n == Len(keys)
        correct_answer == map[question.correct]
        shuffled == [i \in 1..n |-> map[keys[perm[i]]]]
        new_options == OptionsDict([i \in 1..n |->
                                      <<chr97(i - 1), shuffled[i]>>])
    IN  [question EXCEPT
            !.options = new_options,
            !.correct = NewCorrect(shuffled, correct_answer, 0, "None")]

\* generate_default_questions, lines 130-141: the i-th placeholder
DefaultQuestion(category, i) ==
    Question(RequiredKeys \cup {"focus_area"},
             "Sample question " \o ToString(i + 1) \o " for " \o category,
             OptionsDict(<< <<"a", "Option A">>, <<"b", "Option B">>,
                            <<"c", "Option C">>, <<"d", "Option D">> >>),
             "a", DefaultExplanation)

\* DefaultLoop that records the letter the placeholder was written with
\* (question["correct"] before the shuffle) in the answer key
RECURSIVE DefaultLoopStoresOldLetter(_, _, _, _, _)
DefaultLoopStoresOldLetter(category, i, rng, default_questions, CA) ==
    IF i >= 5 THEN [raised |-> FALSE, questions |-> default_questions,
                    CA |-> CA, rng |-> rng]
    ELSE LET shuffle == RandomShuffle(rng, 4)
             shuffled_q == shuffle_options(DefaultQuestion(category, i),
                                           shuffle.order)
         IN  DefaultLoopStoresOldLetter(category, i + 1, shuffle.rng,
                         Append(default_questions, shuffled_q),
                         DictSet(CA, AnswerKeyName(category, i),
                                 DefaultQuestion(category, i).correct))

\* generate_default_questions, the loop from index i on, the generator being
\* in state rng
RECURSIVE DefaultLoop(_, _, _, _, _)
DefaultLoop(category, i, rng, default_questions, CA) ==
    IF i >= 5 THEN [raised |-> FALSE, questions |-> default_questions,
                    CA |-> CA, rng |-> rng]
    ELSE LET shuffle == RandomShuffle(rng, 4)
             shuffled_q == shuffle_options(DefaultQuestion(category, i),
                                           shuffle.order)
         IN  DefaultLoop(category, i + 1, shuffle.rng,
                         Append(default_questions, shuffled_q),
                         DictSet(CA, AnswerKeyName(category, i),
                                 shuffled_q.correct))

\* generate_default_questions(category); CATEGORY_DETAILS[category] raises
\* KeyError for a category that is not configured
generate_default_questions(category, rng, CA) ==
    IF category \notin DOMAIN CATEGORY_DETAILS
    THEN [raised |-> TRUE, questions |-> <<>>, CA |-> CA, rng |-> rng]
    ELSE DefaultLoop(category, 0, rng, <<>>, CA)

\* content.replace("```json", "").replace("```", "").strip()
CleanContent(content) == [content EXCEPT !.fenced = FALSE]

\* json.loads(content) raises JSONDecodeError: the text is not JSON, or it
\* still carries its code fence
JsonLoadsRaises(content) == content.fenced \/ ~content.json

\* generate_questions, lines 101-106 and 109: what makes the loop body raise
\* on element q (a TypeError of `key in q` on a number, a ValueError of the
\* three checks on anything else, a KeyError inside shuffle_options)
ElementRaises(q) ==
    \/ q.type # "object"
    \/ ~(RequiredKeys \subseteq q.keys)
    \/ ~q.options.isdict
    \/ ~(RequiredOptions \subseteq DOMAIN q.options.map)
    \/ ShuffleRaises(q)

\* ValidateLoop that records q["correct"], the letter before the shuffle, in
\* the answer key
RECURSIVE ValidateLoopStoresOldLetter(_, _, _, _, _, _)
ValidateLoopStoresOldLetter(category, qs, i, rng, shuffled_questions, CA) ==
    IF i >= Len(qs)
    THEN [raised |-> FALSE, questions |-> shuffled_questions, CA |-> CA,
          draws |-> i, rng |-> rng]
    ELSE IF ElementRaises(qs[i + 1])
    THEN [raised |-> TRUE, questions |-> shuffled_questions, CA |-> CA,
          draws |-> i, rng |-> rng]
    ELSE LET q == qs[i + 1]
             n == Len(DictKeys(q.options))
             shuffle == RandomShuffle(rng, n)
             shuffled_q == shuffle_options(q, shuffle.order)
         IN  ValidateLoopStoresOldLetter(category, qs, i + 1, shuffle.rng,
                          Append(shuffled_questions, shuffled_q),
                          DictSet(CA, AnswerKeyName(category, i), q.correct))

\* generate_questions, lines 97-115: the loop from index i on
RECURSIVE ValidateLoop(_, _, _, _, _, _)
ValidateLoop(category, qs, i, rng, shuffled_questions, CA) ==
    IF i >= Len(qs)
    THEN [raised |-> FALSE, questions |-> shuffled_questions, CA |-> CA,
          draws |-> i, rng |-> rng]
    ELSE IF ElementRaises(qs[i + 1])
    THEN [raised |-> TRUE, questions |-> shuffled_questions, CA |-> CA,
          draws |-> i, rng |-> rng]
    ELSE LET q == qs[i + 1]
             n == Len(DictKeys(q.options))
             shuffle == RandomShuffle(rng, n)
             shuffled_q == shuffle_options(q, shuffle.order)
         IN  ValidateLoop(category, qs, i + 1, shuffle.rng,
                          Append(shuffled_questions, shuffled_q),
                          DictSet(CA, AnswerKeyName(category, i),
                                  shuffled_q.correct))

\* generate_questions(category) when the service answers with response and
\* the generator is in state rng; CA is CORRECT_ANSWERS before the call.
\* Returns [raised, questions, CA, rng]: whether the call raised, the list
\* it returned, CORRECT_ANSWERS and the generator after it.
generate_questions(category, response, rng, CA) ==
    IF category \notin DOMAIN CATEGORY_DETAILS
    THEN generate_default_questions(category, rng, CA)
    ELSE IF response.kind = "raise"
    THEN generate_default_questions(category, rng, CA)
    ELSE IF JsonLoadsRaises(CleanContent(response))
    THEN generate_default_questions(category, rng, CA)
    ELSE IF response.value.type = "scalar"
    THEN generate_default_questions(category, rng, CA)
    ELSE LET r == ValidateLoop(category, response.value.items, 0, rng,
                               <<>>, CA)
         IN  IF r.raised
             THEN generate_default_questions(category, r.rng, r.CA)
             ELSE [raised |-> FALSE, questions |-> r.questions, CA |-> r.CA,
                   rng |-> r.rng]

-----------------------------------------------------------------------------
(* What the content-generation service can answer *)

\* the options of a service question, as items in the order of the JSON text
ServiceOptions ==
    << <<"a", "W">>, <<"b", "X">>, <<"c", "Y">>, <<"d", "Z">> >>

\* a well-formed question whose correct letter depends on its position
GoodQuestion(i) ==
    Question(RequiredKeys \cup {"focus_area"}, "Service question",
             OptionsDict(ServiceOptions), chr97(i % 4), "Because")

NotAnObject(type) ==
    [type |-> type, keys |-> {}, question |-> "",
     options |-> NotADict, correct |-> "", explanation |-> ""]

\* the ways an element differs from GoodQuestion; "options_reordered"
\* (keys in the order b, a, d, c) leaves it a well-formed question
Defects == {"missing_key", "options_not_dict", "missing_option",
            "extra_option", "extra_option_first", "extra_option_z",
            "options_reordered", "bad_correct", "number", "string"}

\* the element at position i of a batch, with the given defect
DefectiveQuestion(i, defect) ==
    LET good == GoodQuestion(i)
    IN  CASE defect = "missing_key" ->
               [good EXCEPT !.keys = @ \ {"explanation"}]
          [] defect = "options_not_dict" ->
               [good EXCEPT !.options = NotADict]
          [] defect = "missing_option" ->
               [good EXCEPT !.options =
                                OptionsDict(SubSeq(ServiceOptions, 1, 3)),
                            !.correct = "a"]
          [] defect = "extra_option" ->
               [good EXCEPT !.options =
                   OptionsDict(ServiceOptions \o << <<"e", "V">> >>)]
          [] defect = "extra_option_first" ->
               [good EXCEPT !.options =
                   OptionsDict(<< <<"e", "V">> >> \o ServiceOptions)]
          [] defect = "extra_option_z" ->
               [good EXCEPT !.options =
                   OptionsDict(ServiceOptions \o << <<"z", "V">> >>)]
          [] defect = "options_reordered" ->
               [good EXCEPT !.options =
                   OptionsDict(<<ServiceOptions[2], ServiceOptions[1],
                                 ServiceOptions[4], ServiceOptions[3]>>)]
          [] defect = "bad_correct" -> [good EXCEPT !.correct = "z"]
          [] defect = "number" -> NotAnObject("number")
          [] defect = "string" -> NotAnObject("string")

\* a JSON array of n elements; element number p (from 1; 0: none) has defect
Batch(n, p, defect) ==
    [type |-> "array",
     items |-> [i \in 1..n |-> IF i = p THEN DefectiveQuestion(i - 1, defect)
                                        ELSE GoodQuestion(i - 1)]]

\* a JSON value that is not an array: iterating an object yields its keys,
\* iterating a string its characters, a number or null cannot be iterated
NonArray(type, n) ==
    [type |-> type, items |-> [i \in 1..n |-> NotAnObject("string")]]

Content(fenced, json, value) ==
    [kind |-> "content", fenced |-> fenced, json |-> json, value |-> value]

ServiceRaises ==
    [kind |-> "raise", fenced |-> FALSE, json |-> FALSE,
     value |-> NonArray("scalar", 0)]

NotJsonResponses ==
    {Content(f, FALSE, NonArray("scalar", 0)) : f \in BOOLEAN}

ArrayResponses ==
    {Content(f, TRUE, Batch(n, 0, "number")) :
        f \in BOOLEAN, n \in 0..MaxBatch}
    \cup {Content(FALSE, TRUE, Batch(n, p, d)) :
        n \in 1..MaxBatch, p \in 1..MaxBatch, d \in Defects}

NonArrayResponses ==
    {Content(FALSE, TRUE, NonArray(t, n)) :
        t \in {"object", "string"}, n \in 0..1}
    \cup {Content(FALSE, TRUE, NonArray("scalar", 0))}

ServiceResponses ==
    {ServiceRaises} \cup NotJsonResponses \cup ArrayResponses
    \cup NonArrayResponses

Seeds == 0..(MaxSeed - 1)

-----------------------------------------------------------------------------
(* app.py: scoring *)

RECURSIVE GCD(_, _)
GCD(a, b) == IF b = 0 THEN a ELSE GCD(b, a % b)

\* the number n / d, in lowest terms
Rat(n, d) == LET g == GCD(n, d) IN <<n \div g, d \div g>>

RatAdd(x, y) == Rat(x[1] * y[2] + y[1] * x[2], x[2] * y[2])

\* st.session_state.answers.get(category, [])
AnswersGet(session_answers, category) ==
    IF category \in DOMAIN session_answers
    THEN session_answers[category] ELSE <<>>

\* calculate_scores, lines 175-178: the count over enumerate(category_answers)
RECURSIVE CorrectCount(_, _, _, _)
CorrectCount(category, category_answers, i, CA) ==
    IF i >= Len(category_answers) THEN 0
    ELSE (IF category_answers[i + 1] = CA[AnswerKeyName(category, i)]
          THEN 1 ELSE 0)
         + CorrectCount(category, category_answers, i + 1, CA)

\* calculate_scores, line 177: CORRECT_ANSWERS[...] raises KeyError
ScoreRaises(session_answers, CA) ==
    \E k \in 1..Len(SKILL_CATEGORIES) :
        LET category == SKILL_CATEGORIES[k]
        IN  \E i \in 0..(Len(AnswersGet(session_answers, category)) - 1) :
                AnswerKeyName(category, i) \notin DOMAIN CA

\* calculate_scores without the test `if category_answers`: an unanswered
\* category is scored 0
calculate_scores_scores_unanswered(session_answers, CA) ==
    [category \in {SKILL_CATEGORIES[k] : k \in 1..Len(SKILL_CATEGORIES)} |->
        LET category_answers == AnswersGet(session_answers, category)
        IN  IF category_answers = <<>> THEN <<0, 1>>
            ELSE Rat(CorrectCount(category, category_answers, 0, CA) * 100,
                     Len(category_answers))]

\* calculate_scores(): the Score Map of a session whose answers are
\* session_answers, read against CORRECT_ANSWERS = CA
calculate_scores(session_answers, CA) ==
    LET scored == {k \in 1..Len(SKILL_CATEGORIES) :
                      AnswersGet(session_answers, SKILL_CATEGORIES[k]) # <<>>}
    IN  [category \in {SKILL_CATEGORIES[k] : k \in scored} |->
            LET category_answers == session_answers[category]
            IN  Rat(CorrectCount(category, category_answers, 0, CA) * 100,
                    Len(category_answers))]

\* sum(scores.values())
RECURSIVE SumScores(_, _)
SumScores(scores, k) ==
    IF k > Len(SKILL_CATEGORIES) THEN <<0, 1>>
    ELSE IF SKILL_CATEGORIES[k] \in DOMAIN scores
    THEN RatAdd(scores[SKILL_CATEGORIES[k]], SumScores(scores, k + 1))
    ELSE SumScores(scores, k + 1)

\* display_report, line 184: sum(scores.values()) / len(scores); the
\* division raises ZeroDivisionError on an empty Score Map
overall_score(scores) ==
    LET n == Cardinality(DOMAIN scores)
    IN  IF n = 0 THEN [raised |-> TRUE, value |-> <<0, 1>>]
        ELSE LET total == SumScores(scores, 1)
             IN  [raised |-> FALSE, value |-> Rat(total[1], total[2] * n)]

\* the keys of student_info the prompt reads, lines 157-160, in the order
\* it reads them
InfoKeys == <<"name", "email", "department", "year">>

\* the keys of InfoKeys that info lacks, in that order: reading the first
\* raises KeyError
MissingInfoKeys(info) == SelectSeq(InfoKeys, LAMBDA k : k \notin DOMAIN info)

\* generate_report, lines 150-185, the body of the try: the average raises
\* ZeroDivisionError on an empty Score Map, the prompt raises KeyError on a
\* student_info without one of its keys, agent.run raises when the report
\* service fails (outcome "raise"); otherwise the service's text is returned
ReportBody(scores, info, outcome) ==
    IF overall_score(scores).raised
    THEN [raised |-> TRUE, message |-> "division by zero", content |-> ""]
    ELSE IF MissingInfoKeys(info) # <<>>
    THEN [raised |-> TRUE,
          message |-> "'" \o Head(MissingInfoKeys(info)) \o "'",
          content |-> ""]
    ELSE IF outcome = "raise"
    THEN [raised |-> TRUE, message |-> "service", content |-> ""]
    ELSE [raised |-> FALSE, message |-> "", content |-> "narrative"]

\* generate_report without the handler of lines 187-188: the exception of
\* the body leaves the function
generate_report_reraises(scores, info, outcome) ==
    LET body == ReportBody(scores, info, outcome)
    IN  [raised |-> body.raised, report |-> body.content, scores |-> scores]

\* generate_report(scores, student_info) when the report service answers
\* with outcome: every exception of the body becomes the returned string.
\* scores: the caller's Score Map after the call, which only reads it
generate_report(scores, info, outcome) ==
    LET body == ReportBody(scores, info, outcome)
    IN  [raised |-> FALSE,
         report |-> IF body.raised
                    THEN "Error generating report: " \o body.message
                    ELSE body.content,
         scores |-> scores]

ReportOutcomes == {"ok", "raise"}

-----------------------------------------------------------------------------
(* app.py: the page flow.  One action is one run of the script (main), as *)
(* Streamlit starts it: on a form submission, on a download click, or     *)
(* because the previous run ended in st.rerun().                          *)

Sessions == {1, 2}

\* st.session_state has no student_info: initialize_session_state does not
\* create it, reading it raises AttributeError
NoInfo == [unset |-> TRUE]

FormPage(error) == [view |-> "student_info", error |-> error]

QuestionPage(category, index) ==
    [view |-> "question", category |-> category, index |-> index]

\* an exception left the script: Streamlit shows it in place of the page
CrashPage(error) == [view |-> "exception", error |-> error]

ReportPage(scores, overall, report) ==
    [view |-> "report", scores |-> scores, overall |-> overall,
     report |-> report]

\* no script of the session is running
Idle == [pc |-> "idle"]

\* the states the operating system's seed can leave the generator in
StartStates == {Generator(seed, 0) : seed \in Seeds}

\* the states of the generator after it has put out up to MaxDrawn words
DrawnStates ==
    {Generator(seed, pos) : seed \in Seeds, pos \in 0..MaxDrawn}

\* initialize_session_state, and the first run's student-info form
FlowInit ==
    /\ CORRECT_ANSWERS = EmptyDict
    /\ current_phase = [s \in Sessions |-> "student_info"]
    /\ questions = [s \in Sessions |-> EmptyDict]
    /\ answers = [s \in Sessions |-> EmptyDict]
    /\ current_category_index = [s \in Sessions |-> 0]
    /\ current_question_index = [s \in Sessions |-> 0]
    /\ student_info = [s \in Sessions |-> NoInfo]
    /\ rerun = [s \in Sessions |-> FALSE]
    /\ page = [s \in Sessions |-> FormPage(FALSE)]
    /\ thread = [s \in Sessions |-> Idle]
    /\ random_inst \in StartStates
    /\ running = 0
    /\ switches = 0

\* a step of session s takes the interpreter from a run of another session
\* that is in progress
Preempts(s) ==
    running \in Sessions /\ running # s /\ thread[running] # Idle

\* the interpreter runs the script of session s
Scheduled(s) ==
    /\ Preempts(s) => switches < MaxSwitches
    /\ running' = s
    /\ switches' = IF Preempts(s) THEN switches + 1 ELSE switches

Names == {"", "Ann"}
Emails == {"", "ann@example.org"}
Departments == {"", "CS"}
Years == {"1st Year"}

\* FormComplete with the department left out of the test
FormCompleteIgnoresDepartment(name, email, department) ==
    name # "" /\ email # ""

\* display_student_info_form, line 93: `if name and email and department`,
\* an empty string being false
FormComplete(name, email, department) ==
    name # "" /\ email # "" /\ department # ""

\* display_student_info_form, lines 92-103: "Start Assessment" pressed
SubmitStudentInfo(s) ==
    /\ current_phase[s] = "student_info"
    /\ ~rerun[s]
    /\ thread[s] = Idle
    /\ \E name \in Names, email \in Emails, department \in Departments,
          year \in Years :
          IF FormComplete(name, email, department)
          THEN /\ student_info' = [student_info EXCEPT ![s] =
                     [name |-> name, email |-> email,
                      department |-> department, year |-> year]]
               /\ current_phase' = [current_phase EXCEPT
                                       ![s] = "generate_questions"]
               /\ rerun' = [rerun EXCEPT ![s] = TRUE]
               /\ UNCHANGED page
          ELSE /\ page' = [page EXCEPT ![s] = FormPage(TRUE)]
               /\ UNCHANGED <<student_info, current_phase, rerun>>
    /\ Scheduled(s)
    /\ UNCHANGED <<CORRECT_ANSWERS, questions, answers,
                   current_category_index, current_question_index, thread,
                   random_inst, call, ret>>

\* QuestionsCached that never finds the category
QuestionsCachedNever(session_questions, category) == FALSE

\* display_test, line 109: the negation of
\* `current_category not in st.session_state.questions`
QuestionsCached(session_questions, category) ==
    category \in DOMAIN session_questions

\* display_test, lines 106-136, in the run st.rerun() queued: generate the
\* category's questions unless cached, then show the current question.
\* questions[category][index] out of range raises IndexError, whose handler
\* reads current_question, unbound: UnboundLocalError leaves the script.
\* The whole run is one step: this is the run of a process that serves one
\* session, where no other thread touches CORRECT_ANSWERS or the generator
\* meanwhile and a session runs one script at a time.  StartDisplayTest,
\* DrawWord, WriteAnswerKey and FinishDisplayTest are the same run, step by
\* step.
DisplayTest(s, responses) ==
    /\ current_phase[s] = "generate_questions"
    /\ rerun[s]
    /\ thread[s] = Idle
    /\ LET current_category ==
               SKILL_CATEGORIES[current_category_index[s] + 1]
           index == current_question_index[s]
           Shown(qs) ==
               IF index < Len(qs)
               THEN QuestionPage(current_category, index)
               ELSE CrashPage("UnboundLocalError")
       IN  IF QuestionsCached(questions[s], current_category)
           THEN /\ page' = [page EXCEPT
                               ![s] = Shown(questions[s][current_category])]
                /\ UNCHANGED <<CORRECT_ANSWERS, questions, random_inst>>
           ELSE \E response \in responses :
                  LET g == generate_questions(current_category, response,
                                              random_inst, CORRECT_ANSWERS)
                  IN  /\ CORRECT_ANSWERS' = g.CA
                      /\ random_inst' = g.rng
                      /\ IF g.raised
                         THEN /\ page' = [page EXCEPT
                                            ![s] = CrashPage("KeyError")]
                              /\ UNCHANGED questions
                         ELSE /\ questions' = [questions EXCEPT ![s] =
                                    DictSet(@, current_category, g.questions)]
                              /\ page' = [page EXCEPT
                                            ![s] = Shown(g.questions)]
    /\ rerun' = [rerun EXCEPT ![s] = FALSE]
    /\ Scheduled(s)
    /\ UNCHANGED <<current_phase, answers, current_category_index,
                   current_question_index, student_info, thread, call, ret>>

\* NextPosition with the test `< 4` written `<= 4`: the index runs past the
\* last question instead of wrapping
NextPositionNeverWraps(category_index, question_index) ==
    IF question_index <= 4
    THEN [category |-> category_index, question |-> question_index + 1,
          wrapped |-> FALSE]
    ELSE [category |-> category_index + 1, question |-> 0,
          wrapped |-> TRUE]

\* NextPosition stepping two questions at a time
NextPositionSkips(category_index, question_index) ==
    IF question_index < 4
    THEN [category |-> category_index, question |-> question_index + 2,
          wrapped |-> FALSE]
    ELSE [category |-> category_index + 1, question |-> 0,
          wrapped |-> TRUE]

\* display_test, lines 156-160: the position after an answer at
\* (category_index, question_index); wrapped: the else branch ran
NextPosition(category_index, question_index) ==
    IF question_index < 4
    THEN [category |-> category_index, question |-> question_index + 1,
          wrapped |-> FALSE]
    ELSE [category |-> category_index + 1, question |-> 0,
          wrapped |-> TRUE]

\* AssessmentDone with `>=` written `>`
AssessmentDoneLate(category_index) ==
    category_index > Len(SKILL_CATEGORIES)

\* display_test, line 162:
\* `st.session_state.current_category_index >= len(SKILL_CATEGORIES)`
AssessmentDone(category_index) ==
    category_index >= Len(SKILL_CATEGORIES)

\* the option labels the modelled user picks from
UserLabels == {"a", "c"}

\* the label a user of the page flow picks without regard to the question
FlowLabels == {"a"}

\* StoreAnswer starting a new list at every answer
StoreAnswerOverwrites(session_answers, category, answer) ==
    DictSet(session_answers, category, <<answer>>)

\* StoreAnswer appending the answer twice
StoreAnswerTwice(session_answers, category, answer) ==
    DictSet(session_answers, category,
            Append(Append(AnswersGet(session_answers, category), answer),
                   answer))

\* display_test, lines 142-144: the answers of the session after answer is
\* appended to the list of category, created empty when missing
StoreAnswer(session_answers, category, answer) ==
    DictSet(session_answers, category,
            Append(AnswersGet(session_answers, category), answer))

\* display_test, lines 140-164: "Next Question" pressed with answer selected:
\* one of labels or, for an informed user, the question's correct label
SubmitAnswer(s, labels, informed) ==
    /\ current_phase[s] = "generate_questions"
    /\ ~rerun[s]
    /\ thread[s] = Idle
    /\ page[s].view = "question"
    /\ LET current_category ==
               SKILL_CATEGORIES[current_category_index[s] + 1]
           current_question ==
               questions[s][current_category][current_question_index[s] + 1]
           picks == IF informed THEN labels \cup {current_question.correct}
                    ELSE labels
       IN  \E answer \in picks \cap DOMAIN current_question.options.map :
             /\ answers' = [answers EXCEPT ![s] =
                   StoreAnswer(@, current_category, answer)]
             /\ LET next == NextPosition(current_category_index[s],
                                         current_question_index[s])
                IN  /\ current_question_index' =
                         [current_question_index EXCEPT ![s] = next.question]
                    /\ current_category_index' =
                         [current_category_index EXCEPT ![s] = next.category]
                    /\ current_phase' =
                         IF next.wrapped /\ AssessmentDone(next.category)
                         THEN [current_phase EXCEPT ![s] = "generate_report"]
                         ELSE current_phase
    /\ rerun' = [rerun EXCEPT ![s] = TRUE]
    /\ Scheduled(s)
    /\ UNCHANGED <<CORRECT_ANSWERS, questions, student_info, page, thread,
                   random_inst, call, ret>>

\* display_report, lines 183-184, 192-196 and 249: what a run in the report
\* phase shows; the student information is read from the session before
\* generate_report is called
\* CA: the entries of CORRECT_ANSWERS as calculate_scores read them
ReportShown(s, CA, outcome) ==
    LET scores == calculate_scores(answers[s], CA)
        overall == overall_score(scores)
        report == generate_report(scores, student_info[s], outcome)
    IN  IF ScoreRaises(answers[s], CA)
        THEN CrashPage("KeyError")
        ELSE IF overall.raised THEN CrashPage("ZeroDivisionError")
        ELSE IF student_info[s] = NoInfo THEN CrashPage("AttributeError")
        ELSE IF MissingInfoKeys(student_info[s]) # <<>>
        THEN CrashPage("KeyError")
        ELSE IF report.raised THEN CrashPage("Exception")
        ELSE ReportPage(report.scores, overall.value, report.report)

\* display_report when no other thread writes CORRECT_ANSWERS during the run
RenderReport(s, outcome) == ReportShown(s, CORRECT_ANSWERS, outcome)

\* display_report in the run st.rerun() queued after the last answer, the
\* whole run in one step (a process that serves one session)
DisplayReport(s) ==
    /\ current_phase[s] = "generate_report"
    /\ rerun[s]
    /\ thread[s] = Idle
    /\ \E outcome \in ReportOutcomes :
          page' = [page EXCEPT ![s] = RenderReport(s, outcome)]
    /\ rerun' = [rerun EXCEPT ![s] = FALSE]
    /\ Scheduled(s)
    /\ UNCHANGED <<CORRECT_ANSWERS, current_phase, questions, answers,
                   current_category_index, current_question_index,
                   student_info, thread, random_inst, call, ret>>

\* display_report, lines 257 and 280: a download button pressed, which
\* runs the script once more, the whole run in one step (a process that
\* serves one session)
DownloadClick(s) ==
    /\ current_phase[s] = "generate_report"
    /\ ~rerun[s]
    /\ thread[s] = Idle
    /\ page[s].view = "report"
    /\ \E outcome \in ReportOutcomes :
          page' = [page EXCEPT ![s] = RenderReport(s, outcome)]
    /\ Scheduled(s)
    /\ UNCHANGED <<CORRECT_ANSWERS, current_phase, questions, answers,
                   current_category_index, current_question_index,
                   student_info, rerun, thread, random_inst, call, ret>>

-----------------------------------------------------------------------------
(* The script runs of several sessions are threads of one process: they    *)
(* share CORRECT_ANSWERS, which generate_questions writes one entry per    *)
(* loop iteration and calculate_scores reads one entry per answer, and the *)
(* generator of the random module, from which random.shuffle draws word by *)
(* word, all without a lock.  The actions below take a run through these   *)
(* accesses one at a time, so that the runs of two sessions interleave     *)
(* between them.  What a run computes between two accesses touches nothing *)
(* shared and is part of the step of the access before it.                 *)

\* the question the run shows for the session's position in the set qs
QuestionShown(s, qs) ==
    IF current_question_index[s] < Len(qs)
    THEN QuestionPage(SKILL_CATEGORIES[current_category_index[s] + 1],
                      current_question_index[s])
    ELSE CrashPage("UnboundLocalError")

\* the question the loop of a run of generate_questions is at: element i of
\* the service's batch, or placeholder i of generate_default_questions
LoopQuestion(th) ==
    IF th.stage = "batch" THEN th.items[th.i + 1]
    ELSE DefaultQuestion(th.category, th.i)

\* random.shuffle entered with a list of n items: x is the list, as the
\* positions the items had before, j the index its loop is at
BeginShuffle(th, n) ==
    [th EXCEPT !.x = [k \in 1..n |-> k], !.j = n - 1]

\* generate_questions, lines 117-124: an exception sends the run to
\* generate_default_questions, which starts its own list
FallBack(th) ==
    IF th.category \notin DOMAIN CATEGORY_DETAILS
    THEN [th EXCEPT !.raised = TRUE, !.done = TRUE]
    ELSE BeginShuffle([th EXCEPT !.stage = "default", !.i = 0,
                                 !.questions = <<>>], 4)

\* the top of iteration i of the loop (lines 98-109, or 129-142): the loop
\* ends, the element raises, or its options are handed to random.shuffle
LoopTop(th) ==
    IF th.stage = "batch"
    THEN IF th.i >= Len(th.items) THEN [th EXCEPT !.done = TRUE]
         ELSE IF ElementRaises(th.items[th.i + 1]) THEN FallBack(th)
         ELSE BeginShuffle(th,
                           Len(DictKeys(th.items[th.i + 1].options)))
    ELSE IF th.i >= 5 THEN [th EXCEPT !.done = TRUE]
         ELSE BeginShuffle(th, 4)

\* generate_questions(category) entered, the service answering with
\* response: lines 50-97, up to the first shuffle
StartGenerate(category, response) ==
    LET th == [pc |-> "generate_questions", category |-> category,
               stage |-> "batch", items |-> <<>>, i |-> 0,
               x |-> <<>>, j |-> 0, questions |-> <<>>,
               raised |-> FALSE, done |-> FALSE]
    IN  IF \/ category \notin DOMAIN CATEGORY_DETAILS
           \/ response.kind = "raise"
           \/ JsonLoadsRaises(CleanContent(response))
           \/ response.value.type = "scalar"
        THEN FallBack(th)
        ELSE LoopTop([th EXCEPT !.items = response.value.items])

\* display_test, lines 106-111: the queued run starts; with the category
\* cached it shows the question, otherwise it calls generate_questions
StartDisplayTest(s, responses) ==
    /\ current_phase[s] = "generate_questions"
    /\ rerun[s]
    /\ thread[s] = Idle
    /\ LET current_category ==
               SKILL_CATEGORIES[current_category_index[s] + 1]
       IN  IF QuestionsCached(questions[s], current_category)
           THEN /\ page' = [page EXCEPT ![s] =
                      QuestionShown(s, questions[s][current_category])]
                /\ UNCHANGED thread
           ELSE /\ \E response \in responses :
                     thread' = [thread EXCEPT ![s] =
                                  StartGenerate(current_category, response)]
                /\ UNCHANGED page
    /\ rerun' = [rerun EXCEPT ![s] = FALSE]
    /\ Scheduled(s)
    /\ UNCHANGED <<CORRECT_ANSWERS, current_phase, questions, answers,
                   current_category_index, current_question_index,
                   student_info, random_inst, call, ret>>

\* random.shuffle, called at shuffle_options line 31: one word drawn from
\* the generator by _randbelow; a word below j + 1 is the index x[j] is
\* swapped with, any other word is dropped
DrawWord(s) ==
    /\ thread[s].pc = "generate_questions"
    /\ ~thread[s].done
    /\ thread[s].j >= 1
    /\ LET th == thread[s]
           r == getrandbits(random_inst, bit_length(th.j + 1))
       IN  /\ random_inst' = r.rng
           /\ thread' = IF r.value < th.j + 1
                        THEN [thread EXCEPT
                                 ![s].x = Swap(th.x, th.j, r.value),
                                 ![s].j = th.j - 1]
                        ELSE thread
    /\ Scheduled(s)
    /\ UNCHANGED <<CORRECT_ANSWERS, current_phase, questions, answers,
                   current_category_index, current_question_index,
                   student_info, rerun, page, call, ret>>

\* generate_questions, line 113, and generate_default_questions, line 144:
\* the shuffle over, the question is relabelled and its correct letter
\* assigned to CORRECT_ANSWERS; the loop goes to its next iteration
WriteAnswerKey(s) ==
    /\ thread[s].pc = "generate_questions"
    /\ ~thread[s].done
    /\ thread[s].j < 1
    /\ LET th == thread[s]
           shuffled_q == shuffle_options(LoopQuestion(th), th.x)
       IN  /\ CORRECT_ANSWERS' =
                 DictSet(CORRECT_ANSWERS, AnswerKeyName(th.category, th.i),
                         shuffled_q.correct)
           /\ thread' = [thread EXCEPT ![s] =
                 LoopTop([th EXCEPT !.i = th.i + 1,
                                    !.questions = Append(@, shuffled_q)])]
    /\ Scheduled(s)
    /\ UNCHANGED <<current_phase, questions, answers,
                   current_category_index, current_question_index,
                   student_info, rerun, page, random_inst, call, ret>>

\* display_test, lines 111-136: generate_questions has returned (or its
\* fallback raised); the set is cached and the question shown
FinishDisplayTest(s) ==
    /\ thread[s].pc = "generate_questions"
    /\ thread[s].done
    /\ IF thread[s].raised
       THEN /\ page' = [page EXCEPT ![s] = CrashPage("KeyError")]
            /\ UNCHANGED questions
       ELSE /\ questions' = [questions EXCEPT ![s] =
                  DictSet(@, thread[s].category, thread[s].questions)]
            /\ page' = [page EXCEPT ![s] =
                  QuestionShown(s, thread[s].questions)]
    /\ thread' = [thread EXCEPT ![s] = Idle]
    /\ Scheduled(s)
    /\ UNCHANGED <<CORRECT_ANSWERS, current_phase, answers,
                   current_category_index, current_question_index,
                   student_info, rerun, random_inst, call, ret>>

\* calculate_scores, lines 172-177: the names of the entries of
\* CORRECT_ANSWERS it reads, in order, from category number k on
RECURSIVE KeyReads(_, _)
KeyReads(session_answers, k) ==
    IF k > Len(SKILL_CATEGORIES) THEN <<>>
    ELSE LET category == SKILL_CATEGORIES[k]
             n == Len(AnswersGet(session_answers, category))
         IN  [i \in 1..n |-> AnswerKeyName(category, i - 1)]
             \o KeyReads(session_answers, k + 1)

\* a run of display_report about to enter calculate_scores
Scoring(s) ==
    [pc |-> "calculate_scores", reads |-> KeyReads(answers[s], 1),
     seen |-> EmptyDict]

\* display_report, line 183, in the run st.rerun() queued after the last
\* answer
StartDisplayReport(s) ==
    /\ current_phase[s] = "generate_report"
    /\ rerun[s]
    /\ thread[s] = Idle
    /\ thread' = [thread EXCEPT ![s] = Scoring(s)]
    /\ rerun' = [rerun EXCEPT ![s] = FALSE]
    /\ Scheduled(s)
    /\ UNCHANGED <<CORRECT_ANSWERS, current_phase, questions, answers,
                   current_category_index, current_question_index,
                   student_info, page, random_inst, call, ret>>

\* display_report, line 183, in the run a download button starts
StartDownloadClick(s) ==
    /\ current_phase[s] = "generate_report"
    /\ ~rerun[s]
    /\ thread[s] = Idle
    /\ page[s].view = "report"
    /\ thread' = [thread EXCEPT ![s] = Scoring(s)]
    /\ Scheduled(s)
    /\ UNCHANGED <<CORRECT_ANSWERS, current_phase, questions, answers,
                   current_category_index, current_question_index,
                   student_info, rerun, page, random_inst, call, ret>>

\* calculate_scores, line 177: the next read of CORRECT_ANSWERS; a missing
\* entry raises KeyError, which leaves the script
ReadAnswerKey(s) ==
    /\ thread[s].pc = "calculate_scores"
    /\ thread[s].reads # <<>>
    /\ LET name == thread[s].reads[1]
       IN  IF name \in DOMAIN CORRECT_ANSWERS
           THEN /\ thread' = [thread EXCEPT
                     ![s].reads = Tail(@),
                     ![s].seen = DictSet(@, name, CORRECT_ANSWERS[name])]
                /\ UNCHANGED page
           ELSE /\ thread' = [thread EXCEPT ![s] = Idle]
                /\ page' = [page EXCEPT ![s] = CrashPage("KeyError")]
    /\ Scheduled(s)
    /\ UNCHANGED <<CORRECT_ANSWERS, current_phase, questions, answers,
                   current_category_index, current_question_index,
                   student_info, rerun, random_inst, call, ret>>

\* display_report, lines 184-285: the scores are computed from the entries
\* read, the report service answers with one of outcomes, the page is shown
FinishDisplayReport(s, outcomes) ==
    /\ thread[s].pc = "calculate_scores"
    /\ thread[s].reads = <<>>
    /\ \E outcome \in outcomes :
          page' = [page EXCEPT ![s] = ReportShown(s, thread[s].seen, outcome)]
    /\ thread' = [thread EXCEPT ![s] = Idle]
    /\ Scheduled(s)
    /\ UNCHANGED <<CORRECT_ANSWERS, current_phase, questions, answers,
                   current_category_index, current_question_index,
                   student_info, rerun, random_inst, call, ret>>

NoCall == [fn |-> "none"]
NotReturned == [done |-> FALSE]

\* what the service answers in the flow
FlowResponses ==
    { ServiceRaises,
      Content(TRUE, TRUE, Batch(5, 0, "number")),
      Content(FALSE, TRUE, Batch(3, 0, "number")),
      Content(FALSE, TRUE, Batch(5, 1, "extra_option")),
      Content(FALSE, TRUE, Batch(7, 7, "bad_correct")),
      Content(FALSE, TRUE, NonArray("object", 0)) }

Init == FlowInit /\ call = NoCall /\ ret = NotReturned

\* one session, the service answering anything of FlowResponses
Next ==
    \E s \in {1} :
        \/ SubmitStudentInfo(s)
        \/ DisplayTest(s, FlowResponses)
        \/ SubmitAnswer(s, FlowLabels, TRUE)
        \/ DisplayReport(s)
        \/ DownloadClick(s)

Spec == Init /\ [][Next]_vars

\* what a service that is down answers
DownResponses == {ServiceRaises}

\* one session, the content-generation service down
NextDown ==
    \E s \in {1} :
        \/ SubmitStudentInfo(s)
        \/ DisplayTest(s, DownResponses)
        \/ SubmitAnswer(s, FlowLabels, TRUE)
        \/ DisplayReport(s)
        \/ DownloadClick(s)

SpecDown == Init /\ [][NextDown]_vars

\* the report service answering
ReportServiceUp == {"ok"}

\* two sessions of one process, their script runs interleaved between the
\* accesses to CORRECT_ANSWERS and to the generator, a run in progress being
\* pre-empted at most MaxSwitches times; the content-generation service is
\* down, the report service answers, and both users answer "a"
NextTwo ==
    \E s \in Sessions :
        \/ SubmitStudentInfo(s)
        \/ StartDisplayTest(s, DownResponses)
        \/ DrawWord(s)
        \/ WriteAnswerKey(s)
        \/ FinishDisplayTest(s)
        \/ SubmitAnswer(s, FlowLabels, FALSE)
        \/ StartDisplayReport(s)
        \/ StartDownloadClick(s)
        \/ ReadAnswerKey(s)
        \/ FinishDisplayReport(s, ReportServiceUp)

SpecTwo == Init /\ [][NextTwo]_vars

-----------------------------------------------------------------------------
(* Direct calls of the functions, on inputs drawn from bounded sets *)

OptionTexts == {"W", "X", "Y", "Z"}

\* the questions that satisfy the Question invariant
\* the orders the keys of an options dict come in
KeyOrders == {<<"a", "b", "c", "d">>, <<"b", "a", "d", "c">>}

ValidQuestions ==
    {Question(RequiredKeys, "Service question",
              OptionsDict([i \in 1..4 |-> <<order[i], m[order[i]]>>]),
              c, "Because") :
        m \in [RequiredOptions -> OptionTexts], c \in RequiredOptions,
        order \in KeyOrders}

\* per-category answer lists of at most MaxAnswers labels; a category may
\* have no entry
Ledgers ==
    LET lists == UNION {[1..n -> UserLabels] : n \in 0..MaxAnswers}
        cats == {SKILL_CATEGORIES[k] : k \in 1..Len(SKILL_CATEGORIES)}
    IN  UNION {[d -> lists] : d \in SUBSET cats}

\* answer keys with an entry for every position a ledger can hold; the
\* correct label of a position is the same in every category
AnswerKeys ==
    {[name \in {AnswerKeyName(SKILL_CATEGORIES[k], i) :
                  k \in 1..Len(SKILL_CATEGORIES),
                  i \in 0..(MaxAnswers - 1)} |->
        LET i == CHOOSE j \in 0..(MaxAnswers - 1) :
                    \E k \in 1..Len(SKILL_CATEGORIES) :
                        name = AnswerKeyName(SKILL_CATEGORIES[k], j)
        IN  pattern[i]] : pattern \in [0..(MaxAnswers - 1) -> UserLabels]}

\* the student_info dicts generate_report is called with: the one the form
\* stores, one without "year", one with "department" only
StudentInfos ==
    { [name |-> "Ann", email |-> "ann@example.org", department |-> "CS",
       year |-> "1st Year"],
      [name |-> "Ann", email |-> "ann@example.org", department |-> "CS"],
      [department |-> "CS"] }

UnitFlow(ledger, info) ==
    /\ current_phase = [s \in Sessions |-> "student_info"]
    /\ questions = [s \in Sessions |-> EmptyDict]
    /\ answers = [s \in Sessions |-> IF s = 1 THEN ledger ELSE EmptyDict]
    /\ current_category_index = [s \in Sessions |-> 0]
    /\ current_question_index = [s \in Sessions |-> 0]
    /\ student_info = [s \in Sessions |-> IF s = 1 THEN info ELSE NoInfo]
    /\ rerun = [s \in Sessions |-> FALSE]
    /\ page = [s \in Sessions |-> FormPage(FALSE)]
    /\ thread = [s \in Sessions |-> Idle]
    /\ running = 0
    /\ switches = 0

UnitInit ==
    /\ ret = NotReturned
    /\ \/ /\ \E q \in ValidQuestions :
                 call = [fn |-> "shuffle_options", question |-> q]
          /\ CORRECT_ANSWERS = EmptyDict
          /\ UnitFlow(EmptyDict, NoInfo)
       \/ /\ \E k \in 1..Len(SKILL_CATEGORIES), r \in ServiceResponses :
                 call = [fn |-> "generate_questions",
                         category |-> SKILL_CATEGORIES[k], response |-> r]
          /\ CORRECT_ANSWERS = EmptyDict
          /\ UnitFlow(EmptyDict, NoInfo)
       \/ /\ CORRECT_ANSWERS \in AnswerKeys
          /\ \E ledger \in Ledgers :
                \/ /\ call = [fn |-> "calculate_scores"]
                   /\ UnitFlow(ledger, NoInfo)
                \/ /\ call = [fn |-> "display_report"]
                   /\ \E info \in StudentInfos \cup {NoInfo} :
                         UnitFlow(ledger, info)
                \/ /\ \E info \in StudentInfos :
                         call = [fn |-> "generate_report",
                                 student_info |-> info]
                   /\ UnitFlow(ledger, NoInfo)
    /\ random_inst \in
          IF call.fn = "generate_questions" THEN StartStates
          ELSE IF call.fn = "shuffle_options" THEN DrawnStates
          ELSE {Generator(0, 0)}

CallShuffleOptions ==
    /\ call.fn = "shuffle_options"
    /\ ret = NotReturned
    /\ IF ShuffleRaises(call.question)
       THEN /\ ret' = [done |-> TRUE, raised |-> TRUE,
                       question |-> call.question]
            /\ UNCHANGED random_inst
       ELSE LET shuffle == RandomShuffle(random_inst,
                               Len(DictKeys(call.question.options)))
            IN  /\ ret' = [done |-> TRUE, raised |-> FALSE,
                           question |-> shuffle_options(call.question,
                                                        shuffle.order)]
                /\ random_inst' = shuffle.rng
    /\ UNCHANGED <<CORRECT_ANSWERS, flowVars, call>>

CallGenerateQuestions ==
    /\ call.fn = "generate_questions"
    /\ ret = NotReturned
    /\ LET g == generate_questions(call.category, call.response, random_inst,
                                   CORRECT_ANSWERS)
       IN  /\ ret' = [done |-> TRUE, raised |-> g.raised,
                      questions |-> g.questions]
           /\ CORRECT_ANSWERS' = g.CA
           /\ random_inst' = g.rng
    /\ UNCHANGED <<flowVars, call>>

CallCalculateScores ==
    /\ call.fn = "calculate_scores"
    /\ ret = NotReturned
    /\ ret' = [done |-> TRUE,
               raised |-> ScoreRaises(answers[1], CORRECT_ANSWERS),
               scores |-> calculate_scores(answers[1], CORRECT_ANSWERS)]
    /\ UNCHANGED <<CORRECT_ANSWERS, flowVars, random_inst, call>>

CallDisplayReport ==
    /\ call.fn = "display_report"
    /\ ret = NotReturned
    /\ \E outcome \in ReportOutcomes :
          ret' = [done |-> TRUE, page |-> RenderReport(1, outcome)]
    /\ UNCHANGED <<CORRECT_ANSWERS, flowVars, random_inst, call>>

CallGenerateReport ==
    /\ call.fn = "generate_report"
    /\ ret = NotReturned
    /\ \E outcome \in ReportOutcomes :
          LET r == generate_report(
                       calculate_scores(answers[1], CORRECT_ANSWERS),
                       call.student_info, outcome)
          IN  ret' = [done |-> TRUE, service |-> outcome,
                      raised |-> r.raised, report |-> r.report,
                      scores |-> r.scores]
    /\ UNCHANGED <<CORRECT_ANSWERS, flowVars, random_inst, call>>

UnitNext ==
    \/ CallShuffleOptions
    \/ CallGenerateQuestions
    \/ CallCalculateScores
    \/ CallDisplayReport
    \/ CallGenerateReport

SpecUnit == UnitInit /\ [][UnitNext]_vars

-----------------------------------------------------------------------------
(* Properties *)

CategorySet == {SKILL_CATEGORIES[k] : k \in 1..Len(SKILL_CATEGORIES)}

\* the questions of the fallback set: the placeholder texts, the four
\* placeholder options under a, b, c, d, the correct letter on "Option A"
IsFallbackSet(qs, category) ==
    /\ Len(qs) = 5
    /\ \A i \in 1..Len(qs) :
          LET d == DefaultQuestion(category, i - 1)
          IN  /\ qs[i].question = d.question
              /\ qs[i].explanation = DefaultExplanation
              /\ DOMAIN qs[i].options.map = RequiredOptions
              /\ {qs[i].options.map[l] : l \in RequiredOptions}
                    = {d.options.map[l] : l \in RequiredOptions}
              /\ qs[i].correct \in RequiredOptions
              /\ qs[i].options.map[qs[i].correct] = "Option A"

\* C1: calculate_scores gives every category with at least one recorded
\* answer the score 100 * (positions whose answer equals the Answer Key
\* entry) / (recorded answers), and gives a category without recorded
\* answers no entry in the Score Map.
ScoresContract ==
    (call.fn = "calculate_scores" /\ ret.done) =>
        /\ ~ret.raised
        /\ \A category \in CategorySet :
              LET a == AnswersGet(answers[1], category)
                  right == {i \in 1..Len(a) :
                              a[i] = CORRECT_ANSWERS[
                                        AnswerKeyName(category, i - 1)]}
              IN  IF a # <<>>
                  THEN /\ category \in DOMAIN ret.scores
                       /\ ret.scores[category][1] * Len(a)
                            = 100 * Cardinality(right)
                                * ret.scores[category][2]
                  ELSE category \notin DOMAIN ret.scores

\* a call whose ledger has a half-right category, an empty list and so a
\* Score Map of one entry
ScoresContractWitness ==
    /\ call.fn = "calculate_scores"
    /\ ret.done
    /\ DOMAIN ret.scores = {SKILL_CATEGORIES[1]}
    /\ ret.scores[SKILL_CATEGORIES[1]] = <<50, 1>>
    /\ SKILL_CATEGORIES[2] \in DOMAIN answers[1]
    /\ answers[1][SKILL_CATEGORIES[2]] = <<>>

\* C2: an answer step (the ledger of the session grows) happens in the
\* assessing phase; at a question index below 4 it adds 1 to the question
\* index and keeps the category index and the phase; at question index 4 it
\* sets the question index to 0, adds 1 to the category index, and moves to
\* the report phase exactly when that was the last category.  The phase
\* becomes the report phase in no other step, and five recorded answers
\* put the session at category 1, question 0.
AnswerAdvances ==
    /\ [][\A s \in Sessions :
            /\ answers'[s] # answers[s] =>
                  /\ current_phase[s] = "generate_questions"
                  /\ IF current_question_index[s] < 4
                     THEN /\ current_question_index'[s]
                               = current_question_index[s] + 1
                          /\ current_category_index'[s]
                               = current_category_index[s]
                          /\ current_phase'[s] = current_phase[s]
                     ELSE /\ current_question_index[s] = 4
                          /\ current_question_index'[s] = 0
                          /\ current_category_index'[s]
                               = current_category_index[s] + 1
                          /\ (current_phase'[s] = "generate_report")
                               <=> (current_category_index[s]
                                      = Len(SKILL_CATEGORIES) - 1)
            /\ (current_phase[s] # "generate_report"
                  /\ current_phase'[s] = "generate_report") =>
                  /\ answers'[s] # answers[s]
                  /\ current_question_index[s] = 4
                  /\ current_category_index[s] = Len(SKILL_CATEGORIES) - 1
         ]_vars
    /\ [](\A s \in Sessions :
            (/\ DOMAIN answers[s] = {SKILL_CATEGORIES[1]}
             /\ Len(answers[s][SKILL_CATEGORIES[1]]) = 5) =>
               /\ current_category_index[s] = 1
               /\ current_question_index[s] = 0)

\* the last question of the last category has been answered
AnswerAdvancesWitness ==
    /\ current_phase[1] = "generate_report"
    /\ current_category_index[1] = Len(SKILL_CATEGORIES)
    /\ current_question_index[1] = 0
    /\ \A category \in CategorySet : Len(answers[1][category]) = 5

\* C3: generate_questions returns exactly 5 questions, whatever the service
\* answered.
GenerateReturnsFive ==
    (call.fn = "generate_questions" /\ ret.done) =>
        /\ ~ret.raised
        /\ Len(ret.questions) = 5

\* the Question shape of the specification: the four required keys, option
\* keys exactly a, b, c, d, the correct label among them
WellFormed(q) ==
    /\ q.type = "object"
    /\ RequiredKeys \subseteq q.keys
    /\ q.options.isdict
    /\ DOMAIN q.options.map = RequiredOptions
    /\ q.correct \in DOMAIN q.options.map

\* C4: a batch with a question that lacks a required key, or whose option
\* keys are not exactly a, b, c, d, or whose correct label is not an option
\* key, is replaced by the fallback set.
ValidatorRejects ==
    (/\ call.fn = "generate_questions"
     /\ ret.done
     /\ call.response.kind = "content"
     /\ call.response.json
     /\ call.response.value.type = "array"
     /\ \E i \in 1..Len(call.response.value.items) :
           LET q == call.response.value.items[i]
           IN  q.type = "object" /\ ~WellFormed(q)) =>
        IsFallbackSet(ret.questions, call.category)

\* the number of labels of an options dict that carry text t
Copies(map, t) == Cardinality({l \in DOMAIN map : map[l] = t})

\* C5: on a valid question shuffle_options returns the labels a, b, c, d, the
\* same collection of option texts, and a correct label that carries the
\* text the original correct label carried.
ShufflePreserves ==
    (call.fn = "shuffle_options" /\ ret.done) =>
        LET old == call.question
            new == ret.question
        IN  /\ ~ret.raised
            /\ DOMAIN new.options.map = RequiredOptions
            /\ \A t \in OptionTexts :
                  Copies(new.options.map, t) = Copies(old.options.map, t)
            /\ new.correct \in RequiredOptions
            /\ new.options.map[new.correct] = old.options.map[old.correct]

\* a shuffle of a question in which the correct text occurs twice, that
\* moved the correct letter
ShufflePreservesWitness ==
    /\ call.fn = "shuffle_options"
    /\ ret.done
    /\ Copies(call.question.options.map,
              call.question.options.map[call.question.correct]) = 2
    /\ ret.question.correct # call.question.correct
    /\ ret.question.options.map # call.question.options.map

\* C6: in a process with one session, the Answer Key entry of every question
\* of every cached question set is the correct label that question has
\* after its shuffle, and no step changes the entry of a question of a
\* category the session has already generated.
KeyMatchesCache ==
    /\ [](\A s \in Sessions : \A category \in DOMAIN questions[s] :
            \A i \in 1..Len(questions[s][category]) :
              /\ AnswerKeyName(category, i - 1) \in DOMAIN CORRECT_ANSWERS
              /\ CORRECT_ANSWERS[AnswerKeyName(category, i - 1)]
                   = questions[s][category][i].correct)
    /\ [][\A s \in Sessions : \A category \in DOMAIN questions[s] :
            \A i \in 1..Len(questions[s][category]) :
              CORRECT_ANSWERS'[AnswerKeyName(category, i - 1)]
                = CORRECT_ANSWERS[AnswerKeyName(category, i - 1)]]_vars

\* the report of a session that was asked a service batch in one category
\* and the fallback set in another, and answered one question wrongly
KeyMatchesCacheWitness ==
    /\ page[1].view = "report"
    /\ \E category \in DOMAIN questions[1] :
          IsFallbackSet(questions[1][category], category)
    /\ \E category \in DOMAIN questions[1] :
          /\ ~IsFallbackSet(questions[1][category], category)
          /\ \E i \in 1..5 : questions[1][category][i].correct # "a"
    /\ \E category \in DOMAIN page[1].scores :
          page[1].scores[category] = <<80, 1>>

\* the answer key a session was shown: the correct label of each of its
\* cached questions
OwnKey(s) ==
    LET names == {AnswerKeyName(category, i - 1) :
                     category \in DOMAIN questions[s], i \in 1..MaxBatch}
    IN  [name \in {x \in names :
                     \E category \in DOMAIN questions[s] :
                       \E i \in 1..Len(questions[s][category]) :
                         x = AnswerKeyName(category, i - 1)} |->
            LET category == CHOOSE c \in DOMAIN questions[s] :
                               \E i \in 1..Len(questions[s][c]) :
                                 name = AnswerKeyName(c, i - 1)
                i == CHOOSE j \in 1..Len(questions[s][category]) :
                        name = AnswerKeyName(category, j - 1)
            IN  questions[s][category][i].correct]

\* C7: the Score Map a session is shown is the one its own answers earn
\* against the correct labels of the questions it was shown, whatever the
\* other session of the process generated meanwhile.
SessionsIsolated ==
    \A s \in Sessions :
        page[s].view = "report" =>
            page[s].scores = calculate_scores(answers[s], OwnKey(s))

AnsweredAllA(s) ==
    \A category \in CategorySet :
        /\ category \in DOMAIN answers[s]
        /\ answers[s][category] = <<"a", "a", "a", "a", "a">>

AnsweredAllCorrect(s) ==
    \A category \in CategorySet :
        /\ category \in DOMAIN answers[s]
        /\ category \in DOMAIN questions[s]
        /\ Len(answers[s][category]) = 5
        /\ \A i \in 1..5 :
              answers[s][category][i] = questions[s][category][i].correct

FullMarks(s) ==
    /\ DOMAIN page[s].scores = CategorySet
    /\ \A category \in CategorySet : page[s].scores[category] = <<100, 1>>
    /\ page[s].overall = <<100, 1>>

\* C8 as stated: with the service down every category gets the 5 fallback
\* questions, and the user who answers "a" to every question is shown 100.0
\* for every category and 100.0 overall.
AllAGivesFullMarks ==
    /\ \A category \in DOMAIN questions[1] :
          IsFallbackSet(questions[1][category], category)
    /\ (page[1].view = "report" /\ AnsweredAllA(1)) => FullMarks(1)

\* C8 as amended: with the service down every category gets the 5 fallback
\* questions, and the one user of the process who answers every question
\* with the correct label it has after its shuffle is shown 100.0 for every
\* category and 100.0 overall.
FallbackEndToEnd ==
    /\ \A category \in DOMAIN questions[1] :
          IsFallbackSet(questions[1][category], category)
    /\ (page[1].view = "report" /\ AnsweredAllCorrect(1)) => FullMarks(1)

\* a report after answers that were all correct and not all "a"
FallbackEndToEndWitness ==
    /\ page[1].view = "report"
    /\ AnsweredAllCorrect(1)
    /\ ~AnsweredAllA(1)
    /\ DOMAIN questions[1] = CategorySet

\* the ways the specification lets the service fail: an error, text that is
\* not JSON, a JSON value that is not an array, an element the validation
\* of generate_questions raises on
GenerationFailure(response) ==
    \/ response.kind = "raise"
    \/ ~response.json
    \/ response.value.type # "array"
    \/ \E i \in 1..Len(response.value.items) :
          ElementRaises(response.value.items[i])

\* C9: generate_questions never raises, and after a service error, a
\* non-JSON response, a JSON value that is not an array of question objects
\* or a batch that fails validation it returns the fallback set.
GenerateFallsBack ==
    (call.fn = "generate_questions" /\ ret.done) =>
        /\ ~ret.raised
        /\ GenerationFailure(call.response) =>
              IsFallbackSet(ret.questions, call.category)

\* C10: display_report on a session without recorded answers reports the
\* empty Score Map; no ZeroDivisionError leaves it.
EmptyScoreSetGuarded ==
    (/\ call.fn = "display_report"
     /\ ret.done
     /\ DOMAIN calculate_scores(answers[1], CORRECT_ANSWERS) = {}) =>
        ret.page.view # "exception"


-----------------------------------------------------------------------------
(* The page flow of one session *)

\* the session state the claims about the flow speak of
SessionState(s) ==
    <<current_phase[s], student_info[s], current_category_index[s],
      current_question_index[s], questions[s], answers[s]>>

\* C11: a step taken in the student-info phase either moves to the
\* assessment with name, email and department all non-empty, or leaves the
\* whole session state unchanged; after a rejected submission the form can
\* be submitted again.
StudentInfoGate ==
    /\ [][current_phase[1] = "student_info" =>
             \/ /\ current_phase'[1] = "generate_questions"
                /\ student_info'[1].name # ""
                /\ student_info'[1].email # ""
                /\ student_info'[1].department # ""
             \/ SessionState(1)' = SessionState(1)]_vars
    /\ [](current_phase[1] = "student_info" /\ page[1].error
            => ENABLED SubmitStudentInfo(1))

\* the assessment entered by a submission that followed a rejected one
StudentInfoGateWitness ==
    /\ current_phase[1] = "generate_questions"
    /\ page[1].view = "student_info"
    /\ page[1].error
    /\ student_info[1] # NoInfo


PhaseRank(phase) ==
    CASE phase = "student_info" -> 0
      [] phase = "generate_questions" -> 1
      [] phase = "generate_report" -> 2

\* the number of answers session s has recorded, over all categories
RecordedAnswers(s) ==
    LET Count[i \in 0..Len(SKILL_CATEGORIES)] ==
            IF i = 0 THEN 0
            ELSE Count[i - 1] + Len(AnswersGet(answers[s], SKILL_CATEGORIES[i]))
    IN  Count[Len(SKILL_CATEGORIES)]

\* C12: every step keeps the phase or moves it one place along
\* student_info, generate_questions, generate_report; a step that moves the
\* position (category index, question index) records exactly one answer and
\* moves it to the next question, or from question 4 to question 0 of the
\* next category, and no step moves it otherwise; a step taken in the
\* report phase changes neither the phase, the indices, the question sets
\* nor the answers.
SequentialFlow ==
    [][LET c == current_category_index[1]
           q == current_question_index[1]
       IN  /\ PhaseRank(current_phase'[1]) - PhaseRank(current_phase[1])
                 \in {0, 1}
           /\ \/ /\ current_category_index'[1] = c
                 /\ current_question_index'[1] = q
              \/ /\ RecordedAnswers(1)' = RecordedAnswers(1) + 1
                 /\ \/ /\ current_category_index'[1] = c
                       /\ current_question_index'[1] = q + 1
                    \/ /\ q = 4
                       /\ current_category_index'[1] = c + 1
                       /\ current_question_index'[1] = 0
           /\ current_phase[1] = "generate_report" =>
                 <<current_phase[1], current_category_index[1],
                   current_question_index[1], questions[1], answers[1]>>' =
                 <<current_phase[1], current_category_index[1],
                   current_question_index[1], questions[1], answers[1]>>
      ]_vars

\* the report shown, after the position went through every category
SequentialFlowWitness ==
    /\ current_phase[1] = "generate_report"
    /\ page[1].view = "report"
    /\ current_category_index[1] = Len(SKILL_CATEGORIES)
    /\ current_question_index[1] = 0


IsPrefix(xs, ys) ==
    Len(xs) <= Len(ys) /\ SubSeq(ys, 1, Len(xs)) = xs

\* C13: across every step each category's recorded answers are a prefix of
\* their next value, and only categories of the configuration are recorded;
\* a step that submits an answer (a run of the assessment phase that ends
\* in st.rerun()) appends exactly one label to the current category's
\* answers and leaves every other category's answers as they were.
AnswersAppendOnly ==
    [][LET current_category ==
               SKILL_CATEGORIES[current_category_index[1] + 1]
           Submitted == /\ current_phase[1] = "generate_questions"
                        /\ ~rerun[1]
                        /\ rerun'[1]
       IN  /\ DOMAIN answers[1] \subseteq DOMAIN answers'[1]
           /\ DOMAIN answers'[1] \subseteq CategorySet
           /\ \A category \in CategorySet :
                 IsPrefix(AnswersGet(answers[1], category),
                          AnswersGet(answers'[1], category))
           /\ Submitted =>
                 /\ Len(AnswersGet(answers'[1], current_category)) =
                       Len(AnswersGet(answers[1], current_category)) + 1
                 /\ \A category \in CategorySet \ {current_category} :
                       AnswersGet(answers'[1], category) =
                       AnswersGet(answers[1], category)
           /\ ~Submitted => answers'[1] = answers[1]
      ]_vars

\* a second answer recorded after the first, in a category after the first
AnswersAppendOnlyWitness ==
    /\ Len(SKILL_CATEGORIES) > 1
    /\ Len(AnswersGet(answers[1], SKILL_CATEGORIES[1])) = 5
    /\ Len(AnswersGet(answers[1], SKILL_CATEGORIES[2])) = 2


\* C14: whatever the service returned, a session in the assessment phase is
\* never blocked: a run of the script is pending or the user can submit an
\* answer.
NeverBlocked ==
    current_phase[1] = "generate_questions" => ENABLED Next


\* C15: every question of a session's question sets has the Question shape:
\* options exactly a, b, c, d and the correct label among them.
StoredQuestionsWellFormed ==
    \A category \in DOMAIN questions[1] :
        \A i \in 1..Len(questions[1][category]) :
            WellFormed(questions[1][category][i])

\* C16: after generate_questions abandoned a batch because an element
\* failed validation, it has returned the fallback set and the only entries
\* of CORRECT_ANSWERS for the category are those of the 5 fallback
\* questions.
NoPartialAcceptance ==
    (/\ call.fn = "generate_questions"
     /\ ret.done
     /\ call.response.kind = "content"
     /\ call.response.json
     /\ call.response.value.type = "array"
     /\ \E i \in 1..Len(call.response.value.items) :
           ElementRaises(call.response.value.items[i])) =>
        /\ IsFallbackSet(ret.questions, call.category)
        /\ \A i \in 0..MaxBatch :
              AnswerKeyName(call.category, i) \in DOMAIN CORRECT_ANSWERS =>
                  /\ i < Len(ret.questions)
                  /\ CORRECT_ANSWERS[AnswerKeyName(call.category, i)] =
                        ret.questions[i + 1].correct


\* C17: a step that changes the session's question sets adds the set of one
\* category that had none and leaves every cached set as it was; the
\* answer key, which only generate_questions writes, changes in no other
\* step.  So generate_questions runs at most once per category.
GeneratedOnce ==
    [][/\ questions'[1] # questions[1] =>
             /\ \E category \in CategorySet \ DOMAIN questions[1] :
                   DOMAIN questions'[1] = DOMAIN questions[1] \cup {category}
             /\ \A category \in DOMAIN questions[1] :
                   questions'[1][category] = questions[1][category]
       /\ CORRECT_ANSWERS' # CORRECT_ANSWERS => questions'[1] # questions[1]
      ]_vars

\* the second question of the second category shown, from the cached set
GeneratedOnceWitness ==
    /\ DOMAIN questions[1] = CategorySet
    /\ Len(SKILL_CATEGORIES) > 1
    /\ page[1].view = "question"
    /\ page[1].category = SKILL_CATEGORIES[2]
    /\ page[1].index = 1


\* C18: in the assessment phase the category index is in
\* 0..(number of categories - 1) and the question index in 0..4; the
\* category index equals the number of categories only in the report
\* phase.
PositionInRange ==
    /\ current_phase[1] = "generate_questions" =>
          /\ current_category_index[1] \in 0..(Len(SKILL_CATEGORIES) - 1)
          /\ current_question_index[1] \in 0..4
    /\ current_category_index[1] = Len(SKILL_CATEGORIES) =>
          current_phase[1] = "generate_report"

\* the last question of the last category shown
PositionInRangeWitness ==
    /\ current_phase[1] = "generate_questions"
    /\ current_category_index[1] = Len(SKILL_CATEGORIES) - 1
    /\ current_question_index[1] = 4
    /\ page[1].view = "question"
    /\ page[1].index = 4


\* C19: each category before the current one has 5 recorded answers, the
\* current one has as many as the question index, each later one has none;
\* in the report phase every category has 5 answers, calculate_scores
\* gives a Score Map with an entry for every category, and the overall
\* score divides by a non-zero count.
LedgerMatchesPosition ==
    /\ \A k \in 1..Len(SKILL_CATEGORIES) :
          Len(AnswersGet(answers[1], SKILL_CATEGORIES[k])) =
              IF k - 1 < current_category_index[1] THEN 5
              ELSE IF k - 1 = current_category_index[1]
                   THEN current_question_index[1]
                   ELSE 0
    /\ current_phase[1] = "generate_report" =>
          /\ \A category \in CategorySet :
                Len(AnswersGet(answers[1], category)) = 5
          /\ ~ScoreRaises(answers[1], CORRECT_ANSWERS)
          /\ DOMAIN calculate_scores(answers[1], CORRECT_ANSWERS) =
                CategorySet
          /\ ~overall_score(calculate_scores(answers[1],
                                             CORRECT_ANSWERS)).raised

\* the report of a complete assessment shown, with a score per category
LedgerMatchesPositionWitness ==
    /\ current_phase[1] = "generate_report"
    /\ page[1].view = "report"
    /\ DOMAIN page[1].scores = CategorySet
    /\ \A category \in CategorySet : Len(answers[1][category]) = 5


\* the ways the preparation of the report fails: the report service raises,
\* the Score Map is empty, student_info lacks a key
ReportFailure ==
    \/ ret.service = "raise"
    \/ DOMAIN calculate_scores(answers[1], CORRECT_ANSWERS) = {}
    \/ MissingInfoKeys(call.student_info) # <<>>

ErrorMessages == {"division by zero", "service"} \cup
                 {"'" \o InfoKeys[i] \o "'" : i \in 1..Len(InfoKeys)}

\* C20: generate_report raises nothing; when the report service fails, or
\* the Score Map is empty, or student_info lacks a key, it returns
\* "Error generating report: " followed by the error's message; the Score
\* Map it was called with is unchanged.
ReportNeverFails ==
    (call.fn = "generate_report" /\ ret.done) =>
        /\ ~ret.raised
        /\ ret.scores = calculate_scores(answers[1], CORRECT_ANSWERS)
        /\ ReportFailure =>
              \E m \in ErrorMessages :
                  ret.report = "Error generating report: " \o m
        /\ ~ReportFailure => ret.report = "narrative"

\* the report service failed on a non-empty Score Map, and the error
\* string came back
ReportNeverFailsWitness ==
    /\ call.fn = "generate_report"
    /\ ret.done
    /\ ret.service = "raise"
    /\ DOMAIN ret.scores # {}
    /\ MissingInfoKeys(call.student_info) = <<>>
    /\ ret.report = "Error generating report: service"

=============================================================================
